---- MODULE Spec2Model ----
(***************************************************************************)
(* A model of zarrs_n5: the N5Store storage interceptor (storage.rs,       *)
(* storage/asynch.rs), the N5 metadata translation (metadata.rs), the N5   *)
(* chunk header / chunk body codec and its configuration (chunk.rs,        *)
(* codec.rs) and the chunk key encoding (chunk_key_encoding.rs).           *)
(*                                                                         *)
(* Strings that the code takes apart (store keys) are sequences of tokens: *)
(* "/" is the separator character, every other token is a run of           *)
(* characters without a separator.  JSON documents are functions from the  *)
(* keys present to values; a JSON value is a record [t, s, q] (type tag,   *)
(* string part, numeric part).  Byte buffers are sequences of 0..255.      *)
(***************************************************************************)
EXTENDS Integers, Sequences, FiniteSets, TLC

VARIABLES
    backend,    \* the wrapped store: stored key -> content ("none" or a blob)
    last,       \* the most recent N5Store request: operation, key, backend calls, result
    out,        \* the most recent metadata parse / translation: input and result
    buf,        \* the chunk blob handed to the chunk codec
    eshape,     \* the chunk shape the caller expects (row-major, NonZeroU64 each)
    dec,        \* the most recent chunk codec operation and its result
    comp,       \* a codec's compression configuration (JSON) and what was built from it
    cidx        \* chunk grid indices and the chunk key encoded from them

vars == <<backend, last, out, buf, eshape, dec, comp, cidx>>

----------------------------------------------------------------------------
(* Generic helpers *)

Reverse(s) == [i \in 1..Len(s) |-> s[Len(s) + 1 - i]]

SeqsUpTo(S, n) == UNION {[1..k -> S] : k \in 0..n}

Restrict(f, D) == [k \in D |-> f[k]]

----------------------------------------------------------------------------
(* Store keys *)

\* Deepest key drawn as a request: number of '/'-separated segments.
MaxDepth == 3

Slash == "/"

ZarrJson == <<"zarr.json">>

AttributesJson == <<"attributes.json">>

\* The segments request keys are made of; <<"x", "zarr.json">> is the
\* string "xzarr.json".
Segs == {<<"a">>, ZarrJson, <<"x", "zarr.json">>}

RECURSIVE Join(_)
Join(ss) ==
    IF Len(ss) = 0 THEN <<>>
    ELSE IF Len(ss) = 1 THEN ss[1]
    ELSE ss[1] \o <<Slash>> \o Join(Tail(ss))

Keys == {Join(ss) : ss \in SeqsUpTo(Segs, MaxDepth)}

\* str::rsplit_once('/'): None, or the text before and after the last '/'.
RSplitOnce(s) ==
    LET idx == {i \in 1..Len(s) : s[i] = Slash}
    IN  IF idx = {} THEN [some |-> FALSE, prefix |-> <<>>, suffix |-> s]
        ELSE LET i == CHOOSE j \in idx : \A k \in idx : k <= j
             IN  [some |-> TRUE, prefix |-> SubSeq(s, 1, i - 1),
                  suffix |-> SubSeq(s, i + 1, Len(s))]

\* str::split_once('/'): the split at the first '/'.
SplitOnceFirst(s) ==
    LET idx == {i \in 1..Len(s) : s[i] = Slash}
    IN  IF idx = {} THEN [some |-> FALSE, prefix |-> <<>>, suffix |-> s]
        ELSE LET i == CHOOSE j \in idx : \A k \in idx : j <= k
             IN  [some |-> TRUE, prefix |-> SubSeq(s, 1, i - 1),
                  suffix |-> SubSeq(s, i + 1, Len(s))]

\* N5Store::intercept_zarr_json with the key split at the first '/'.
intercept_zarr_json_first(key) ==
    LET sp == SplitOnceFirst(key)
    IN  IF sp.suffix = ZarrJson
        THEN [some |-> TRUE,
              key |-> IF sp.prefix = <<>> THEN AttributesJson
                      ELSE sp.prefix \o <<Slash>> \o AttributesJson]
        ELSE [some |-> FALSE, key |-> key]

\* N5Store::intercept_zarr_json: None for a key that is not a zarr.json
\* object, else the key of the attributes.json object beside it.
intercept_zarr_json(key) ==
    LET sp == RSplitOnce(key)
    IN  IF sp.suffix = ZarrJson
        THEN [some |-> TRUE,
              key |-> IF sp.prefix = <<>> THEN AttributesJson
                      ELSE sp.prefix \o <<Slash>> \o AttributesJson]
        ELSE [some |-> FALSE, key |-> key]

----------------------------------------------------------------------------
(* JSON values and N5 attribute documents *)

JStr(s) == [t |-> "str", s |-> s, q |-> <<>>]

JNum(n) == [t |-> "num", s |-> "", q |-> <<n>>]

JArr(q) == [t |-> "arr", s |-> "", q |-> q]

\* An object with a "type" tag and at most one numeric parameter.
JObj(type, params) == [t |-> "obj", s |-> type, q |-> params]

ReservedArrayKeys == {"n5", "dimensions", "blockSize", "dataType", "compression"}

\* Vec<u64>: a JSON array of non-negative integers.
IsU64Seq(v) == v.t = "arr" /\ \A i \in 1..Len(v.q) : v.q[i] >= 0

default_bzip2_block_size == 9

default_gzip_level == -1

lz4_default_level == 65536

default_xz_preset == 6

\* The field each variant of N5Compression carries, under the name serde
\* gives it: the enum's rename_all renames the variants, not their fields.
CompressionField(scheme) ==
    IF scheme = "bzip2" THEN {"block_size"}
    ELSE IF scheme \in {"gzip", "lz4"} THEN {"level"}
    ELSE IF scheme = "xz" THEN {"preset"}
    ELSE {}

\* A JObj as the JSON object it stands for: its "type" and, when it has a
\* parameter, the parameter under the name of the variant's field.
ObjectOf(v) ==
    [k \in {"type"} \cup (IF v.q = <<>> THEN {} ELSE CompressionField(v.s)) |->
        IF k = "type" THEN JStr(v.s) ELSE JNum(v.q[1])]

\* Deserialize for N5Compression on a JSON object (a function from its keys
\* to values): internally tagged by "type"; the variant's field is read by
\* name, takes its default when absent and must fit its integer type; keys
\* that are not fields of the variant are ignored.
DeserializeCompression(m) ==
    LET ok(scheme, n) == [ok |-> TRUE, v |-> [scheme |-> scheme, param |-> n]]
        bad == [ok |-> FALSE, v |-> [scheme |-> "", param |-> 0]]
        field(scheme, name, d, lo, hi) ==
            IF name \notin DOMAIN m THEN ok(scheme, d)
            ELSE IF m[name].t = "num" /\ m[name].q[1] >= lo /\ m[name].q[1] <= hi
                 THEN ok(scheme, m[name].q[1])
                 ELSE bad
    IN  IF "type" \notin DOMAIN m THEN bad
        ELSE IF m["type"].t # "str" THEN bad
        ELSE IF m["type"].s = "raw" THEN ok("raw", 0)
        ELSE IF m["type"].s = "bzip2"
            THEN field("bzip2", "block_size", default_bzip2_block_size, 0, 255)
        ELSE IF m["type"].s = "gzip"
            THEN field("gzip", "level", default_gzip_level, -128, 127)
        ELSE IF m["type"].s = "lz4"
            THEN field("lz4", "level", lz4_default_level, 0, 2147483647)
        ELSE IF m["type"].s = "xz"
            THEN field("xz", "preset", default_xz_preset, 0, 2147483647)
        ELSE bad

\* Serialize for N5Compression with the fields renamed to camelCase too.
SerializeCompression_camel(c) ==
    [k \in {"type"} \cup (IF c.scheme = "bzip2" THEN {"blockSize"}
                          ELSE CompressionField(c.scheme)) |->
        IF k = "type" THEN JStr(c.scheme) ELSE JNum(c.param)]

\* Serialize for N5Compression: the tag under "type" and the variant's field.
SerializeCompression(c) ==
    [k \in {"type"} \cup CompressionField(c.scheme) |->
        IF k = "type" THEN JStr(c.scheme) ELSE JNum(c.param)]

\* Deserialize for N5Compression on the `compression` value of a document.
ParseCompression(v) ==
    IF v.t # "obj" THEN [ok |-> FALSE, v |-> [scheme |-> "", param |-> 0]]
    ELSE DeserializeCompression(ObjectOf(v))

\* Option<String> under the key "n5": absent, or a string.
VersionOk(d) == "n5" \in DOMAIN d => d["n5"].t = "str"

n5_version(d) == IF "n5" \in DOMAIN d THEN <<d["n5"].s>> ELSE <<>>

\* Deserialize for N5ArrayMetadata: the four array keys present and
\* well-typed; every key that is not a named field lands in `attributes`.
ArrayParses(d) ==
    /\ {"dimensions", "blockSize", "dataType", "compression"} \subseteq DOMAIN d
    /\ VersionOk(d)
    /\ IsU64Seq(d["dimensions"])
    /\ IsU64Seq(d["blockSize"])
    /\ d["dataType"].t = "str"
    /\ ParseCompression(d["compression"]).ok

N5ArrayMetadata(d) ==
    [kind |-> "array",
     n5_version |-> n5_version(d),
     dimensions |-> d["dimensions"].q,
     block_size |-> d["blockSize"].q,
     data_type |-> d["dataType"].s,
     compression |-> ParseCompression(d["compression"]).v,
     attributes |-> Restrict(d, DOMAIN d \ ReservedArrayKeys)]

\* Deserialize for N5GroupMetadata: only "n5" is a named field.
GroupParses(d) == VersionOk(d)

N5GroupMetadata(d) ==
    [kind |-> "group",
     n5_version |-> n5_version(d),
     attributes |-> Restrict(d, DOMAIN d \ {"n5"})]

\* serde_json::from_reader::<N5Metadata> with the Group variant tried first.
ParseN5Metadata_group_first(blob) ==
    IF blob.t # "json" THEN [ok |-> FALSE]
    ELSE IF GroupParses(blob.doc) THEN [ok |-> TRUE, v |-> N5GroupMetadata(blob.doc)]
    ELSE IF ArrayParses(blob.doc) THEN [ok |-> TRUE, v |-> N5ArrayMetadata(blob.doc)]
    ELSE [ok |-> FALSE]

\* serde_json::from_reader::<N5Metadata>: untagged, Array tried before Group.
\* A blob is [t |-> "notjson"] or [t |-> "json", doc |-> d].
ParseN5Metadata(blob) ==
    IF blob.t # "json" THEN [ok |-> FALSE]
    ELSE IF ArrayParses(blob.doc) THEN [ok |-> TRUE, v |-> N5ArrayMetadata(blob.doc)]
    ELSE IF GroupParses(blob.doc) THEN [ok |-> TRUE, v |-> N5GroupMetadata(blob.doc)]
    ELSE [ok |-> FALSE]

----------------------------------------------------------------------------
(* Metadata translation (metadata.rs) *)

Ok(v) == [ok |-> TRUE, v |-> v]

Err(e) == [ok |-> FALSE, err |-> e]

\* An error whose message is formatted from a value.
ErrArg(e, a) == [ok |-> FALSE, err |-> e, arg |-> a]

\* N5Compression::to_bytes_to_bytes_codec taking the block size 0 for a bz2
\* level.
to_bytes_to_bytes_codec_zero(c) ==
    IF c.scheme = "raw" THEN Ok([codec |-> "none", level |-> 0])
    ELSE IF c.scheme = "bzip2"
        THEN IF c.param \in 0..9 THEN Ok([codec |-> "bz2", level |-> c.param])
             ELSE ErrArg("invalid bz2 block size", c.param)
    ELSE IF c.scheme = "gzip"
        THEN IF c.param = -1 THEN Ok([codec |-> "gzip", level |-> 6])
             ELSE IF c.param >= 0
                 THEN IF c.param <= 9 THEN Ok([codec |-> "gzip", level |-> c.param])
                      ELSE ErrArg("GzipCompressionLevelError", c.param)
             ELSE ErrArg("invalid gzip compression level", c.param)
    ELSE ErrArg("unsupported N5 compression", c)

\* N5Compression::to_bytes_to_bytes_codec: None for raw, a bz2 codec for a
\* block size Bz2CompressionLevel accepts (1..=9), a gzip codec of level 6
\* for -1 and of the level itself for 0..=9 (GzipCodec::new refuses more).
to_bytes_to_bytes_codec(c) ==
    IF c.scheme = "raw" THEN Ok([codec |-> "none", level |-> 0])
    ELSE IF c.scheme = "bzip2"
        THEN IF c.param \in 1..9 THEN Ok([codec |-> "bz2", level |-> c.param])
             ELSE ErrArg("invalid bz2 block size", c.param)
    ELSE IF c.scheme = "gzip"
        THEN IF c.param = -1 THEN Ok([codec |-> "gzip", level |-> 6])
             ELSE IF c.param >= 0
                 THEN IF c.param <= 9 THEN Ok([codec |-> "gzip", level |-> c.param])
                      ELSE ErrArg("GzipCompressionLevelError", c.param)
             ELSE ErrArg("invalid gzip compression level", c.param)
    ELSE ErrArg("unsupported N5 compression", c)

\* n5compression_to_b2b with an lz4 transform wired in.
n5compression_to_b2b_lz4(n5c) ==
    IF n5c.scheme = "lz4" THEN Ok([codec |-> "lz4", level |-> n5c.param])
    ELSE to_bytes_to_bytes_codec(n5c)

\* n5compression_to_b2b (codec.rs): the same selection as
\* N5Compression::to_bytes_to_bytes_codec, written a second time.
n5compression_to_b2b(n5c) ==
    IF n5c.scheme = "raw" THEN Ok([codec |-> "none", level |-> 0])
    ELSE IF n5c.scheme = "bzip2"
        THEN IF n5c.param \in 1..9 THEN Ok([codec |-> "bz2", level |-> n5c.param])
             ELSE ErrArg("invalid bz2 block size", n5c.param)
    ELSE IF n5c.scheme = "gzip"
        THEN IF n5c.param = -1 THEN Ok([codec |-> "gzip", level |-> 6])
             ELSE IF n5c.param >= 0
                 THEN IF n5c.param <= 9 THEN Ok([codec |-> "gzip", level |-> n5c.param])
                      ELSE ErrArg("GzipCompressionLevelError", n5c.param)
             ELSE ErrArg("invalid gzip compression level", n5c.param)
    ELSE ErrArg("unsupported N5 compression", n5c)

\* n5compression_to_chain: a big-endian bytes codec followed by the
\* compressor, if there is one.
n5compression_to_chain(n5c) ==
    LET compressor == n5compression_to_b2b(n5c)
    IN  IF ~compressor.ok THEN compressor
        ELSE Ok([array_to_bytes |-> "bytes_big",
                 bytes_to_bytes |-> IF compressor.v.codec = "none" THEN <<>>
                                    ELSE <<compressor.v>>])

\* N5Codec::new.
N5Codec_new(compression) ==
    LET codecs == n5compression_to_chain(compression)
    IN  IF ~codecs.ok THEN codecs
        ELSE Ok([n5_compression |-> compression, codecs |-> codecs.v])

\* N5Codec::new_with_configuration.
new_with_configuration(config) ==
    LET r == N5Codec_new(config.compression)
    IN  IF r.ok THEN r ELSE ErrArg("PluginCreateError::Other", r)

\* MetadataV3::to_typed_configuration::<N5CodecConfiguration>: the
\* configuration object must hold a `compression` that deserializes.
to_typed_configuration(metadata) ==
    IF "compression" \notin DOMAIN metadata.configuration
    THEN Err("missing field compression")
    ELSE LET c == DeserializeCompression(metadata.configuration["compression"])
         IN  IF c.ok THEN Ok([compression |-> c.v])
             ELSE Err("invalid compression")

\* CodecTraitsV3::create for N5Codec.
create(metadata) ==
    LET config == to_typed_configuration(metadata)
    IN  IF ~config.ok THEN config ELSE new_with_configuration(config.v)

\* CodecTraits::configuration for N5Codec: the N5CodecConfiguration holding
\* the compression the codec was built from, as a JSON object.
configuration(codec) ==
    [k \in {"compression"} |-> SerializeCompression(codec.n5_compression)]

\* convert_chunk_grid without the .rev().
convert_chunk_grid_norev(block_size) ==
    IF \E i \in 1..Len(block_size) : block_size[i] = 0
    THEN Err("zero block size")
    ELSE Ok([name |-> "regular_bounded", chunk_shape |-> block_size])

\* convert_chunk_grid: every block size as a NonZeroU64, reversed, as the
\* configuration of a regular bounded chunk grid.
convert_chunk_grid(block_size) ==
    IF \E i \in 1..Len(block_size) : block_size[i] = 0
    THEN Err("zero block size")
    ELSE Ok([name |-> "regular_bounded", chunk_shape |-> Reverse(block_size)])

SupportedDataTypes ==
    {"uint8", "int8", "int16", "uint16", "int32", "uint32", "int64", "uint64",
     "float32", "float64"}

\* convert_data_type falling back to a raw-bits type for an unknown name.
convert_data_type_lenient(data_type) ==
    IF data_type \in SupportedDataTypes THEN Ok(data_type) ELSE Ok("r8")

\* convert_data_type: the Zarr data type of the same name, or an error.
convert_data_type(data_type) ==
    IF data_type \in SupportedDataTypes THEN Ok(data_type)
    ELSE Err("unsupported data type")

convert_fill_value == 0

convert_chunk_key_encoding == "zarrs.n5"

\* From<N5GroupMetadata> for GroupMetadataV3.
GroupMetadataV3(m) == [node_type |-> "group", attributes |-> m.attributes]

\* TryFrom<N5ArrayMetadata> for ArrayMetadataV3.  The compression is first
\* resolved by to_bytes_to_bytes_codec, whose error ends the translation;
\* the N5Codec is the one codec.rs builds for that compression, and the
\* codec entry holds the configuration that codec emits.
ArrayMetadataV3(m) ==
    LET shape == Reverse(m.dimensions)
        chunk_grid == convert_chunk_grid(m.block_size)
        data_type == convert_data_type(m.data_type)
        b2b == to_bytes_to_bytes_codec(m.compression)
        n5_codec == N5Codec_new(m.compression)
    IN  IF ~chunk_grid.ok THEN chunk_grid
        ELSE IF ~data_type.ok THEN data_type
        ELSE IF ~b2b.ok THEN b2b
        ELSE IF ~n5_codec.ok THEN n5_codec
        ELSE Ok([node_type |-> "array",
                 shape |-> shape,
                 chunk_grid |-> chunk_grid.v,
                 data_type |-> data_type.v,
                 fill_value |-> convert_fill_value,
                 codecs |-> <<[name |-> "zarrs.n5",
                               configuration |-> configuration(n5_codec.v)]>>,
                 chunk_key_encoding |-> convert_chunk_key_encoding,
                 attributes |-> m.attributes])

\* TryFrom<N5Metadata> for NodeMetadataV3.
NodeMetadataV3(m) ==
    IF m.kind = "array" THEN ArrayMetadataV3(m) ELSE Ok(GroupMetadataV3(m))

----------------------------------------------------------------------------
(* The wrapped backend and N5Store (storage.rs, storage/asynch.rs) *)

RNone == [t |-> "none"]

RBytes(b) == [t |-> "bytes", bytes |-> b]

RSize(n) == [t |-> "size", n |-> n]

RBool(b) == [t |-> "bool", b |-> b]

RErr(kind, key, msg) == [t |-> "err", kind |-> kind, key |-> key, msg |-> msg]

NoContent == [t |-> "none"]

\* The wrapped store's get: an I/O failure, not found, or the bytes stored.
BackendGet(bk, key, io) ==
    IF io THEN RErr("IOError", <<>>, "backend")
    ELSE IF key \in DOMAIN bk /\ bk[key].t # "none" THEN RBytes(bk[key])
    ELSE RNone

BlobSize(blob) == IF blob.t = "json" THEN 2 + Cardinality(DOMAIN blob.doc) ELSE 1

\* The wrapped store's size_key.
BackendSizeKey(bk, key, io) ==
    IF io THEN RErr("IOError", <<>>, "backend")
    ELSE IF key \in DOMAIN bk /\ bk[key].t # "none" THEN RSize(BlobSize(bk[key]))
    ELSE RNone

Call(op, key) == [op |-> op, key |-> key]

\* serde_json::to_vec of the translated document.
ToVec(zarr) == [t |-> "json", doc |-> zarr]

\* The values convert_metadata computes from the bytes of an attributes.json:
\* the parsed N5 metadata and its translation.
ConvertSteps(bytes) ==
    LET n5 == ParseN5Metadata(bytes)
    IN  [op |-> "convert", bytes |-> bytes, n5 |-> n5,
         zarr |-> IF n5.ok THEN NodeMetadataV3(n5.v) ELSE Err("not parsed")]

NoOut == [op |-> "idle"]

\* N5Store::convert_metadata on what the backend's get returned (Ok(None) or
\* Ok(Some(bytes))).
convert_metadata(r) ==
    IF r.t = "none" THEN [result |-> RNone, steps |-> NoOut]
    ELSE LET st == ConvertSteps(r.bytes)
         IN  [steps |-> st,
              result |->
                IF ~st.n5.ok
                THEN RErr("InvalidMetadata", AttributesJson, "could not parse N5 metadata")
                ELSE IF ~st.zarr.ok
                THEN RErr("InvalidMetadata", AttributesJson,
                          "could not convert N5 metadata to Zarr metadata")
                ELSE RBytes(ToVec(st.zarr.v))]

\* ReadableStorageTraits::size_key for N5Store.
size_key(bk, key, io) ==
    LET ic == intercept_zarr_json(key)
    IN  IF ic.some
        THEN [calls |-> <<Call("size_key", ic.key)>>,
              result |-> BackendSizeKey(bk, ic.key, io)]
        ELSE [calls |-> <<Call("size_key", key)>>,
              result |-> BackendSizeKey(bk, key, io)]

\* ReadableStorageTraits::supports_get_partial for N5Store.
supports_get_partial == [calls |-> <<>>, result |-> RBool(FALSE)]

\* ReadableStorageTraits::get for N5Store keeping the metadata it translated
\* last and serving a repeated request from it.
get_cached(bk, key, io) ==
    LET ic == intercept_zarr_json(key)
    IN  IF ic.some /\ last.op = "get" /\ last.key = key /\ last.result.t = "bytes"
        THEN [calls |-> <<Call("get", ic.key)>>, result |-> last.result, steps |-> NoOut]
        ELSE IF ic.some
        THEN LET r == BackendGet(bk, ic.key, io)
                 c == convert_metadata(r)
             IN  IF r.t = "err"
                 THEN [calls |-> <<Call("get", ic.key)>>, result |-> r, steps |-> NoOut]
                 ELSE [calls |-> <<Call("get", ic.key)>>, result |-> c.result,
                       steps |-> c.steps]
        ELSE [calls |-> <<Call("get", key)>>, result |-> BackendGet(bk, key, io),
              steps |-> NoOut]

\* ReadableStorageTraits::get for N5Store.
get(bk, key, io) ==
    LET ic == intercept_zarr_json(key)
    IN  IF ic.some
        THEN LET r == BackendGet(bk, ic.key, io)
                 c == convert_metadata(r)
             IN  IF r.t = "err"
                 THEN [calls |-> <<Call("get", ic.key)>>, result |-> r, steps |-> NoOut]
                 ELSE [calls |-> <<Call("get", ic.key)>>, result |-> c.result,
                       steps |-> c.steps]
        ELSE [calls |-> <<Call("get", key)>>, result |-> BackendGet(bk, key, io),
              steps |-> NoOut]

\* ReadableStorageTraits::get_partial_many for N5Store.
get_partial_many(bk, key) ==
    [calls |-> <<>>,
     result |-> RErr("Unsupported", <<>>, "get_partial_many not supported")]

\* ReadableStorageTraits::get_partial for N5Store.
get_partial(bk, key) ==
    [calls |-> <<>>,
     result |-> RErr("Unsupported", <<>>, "get_partial not supported")]

\* AsyncReadableStorageTraits::get for N5Store.
async_get(bk, key, io) ==
    LET ic == intercept_zarr_json(key)
    IN  IF ic.some
        THEN LET r == BackendGet(bk, ic.key, io)
                 c == convert_metadata(r)
             IN  IF r.t = "err"
                 THEN [calls |-> <<Call("get", ic.key)>>, result |-> r, steps |-> NoOut]
                 ELSE [calls |-> <<Call("get", ic.key)>>, result |-> c.result,
                       steps |-> c.steps]
        ELSE [calls |-> <<Call("get", key)>>, result |-> BackendGet(bk, key, io),
              steps |-> NoOut]

\* AsyncReadableStorageTraits::get_partial for N5Store.
async_get_partial(bk, key) ==
    [calls |-> <<>>,
     result |-> RErr("Unsupported", <<>>, "get_partial not supported")]

\* AsyncReadableStorageTraits::get_partial_many for N5Store.
async_get_partial_many(bk, key) ==
    [calls |-> <<>>,
     result |-> RErr("Unsupported", <<>>, "get_partial_many not supported")]

\* AsyncReadableStorageTraits::size_key forwarding the key as requested.
async_size_key_forward(bk, key, io) ==
    [calls |-> <<Call("size_key", key)>>, result |-> BackendSizeKey(bk, key, io)]

\* AsyncReadableStorageTraits::size_key for N5Store.
async_size_key(bk, key, io) ==
    LET ic == intercept_zarr_json(key)
    IN  IF ic.some
        THEN [calls |-> <<Call("size_key", ic.key)>>,
              result |-> BackendSizeKey(bk, ic.key, io)]
        ELSE [calls |-> <<Call("size_key", key)>>,
              result |-> BackendSizeKey(bk, key, io)]

\* AsyncReadableStorageTraits::supports_get_partial for N5Store.
async_supports_get_partial == [calls |-> <<>>, result |-> RBool(FALSE)]

----------------------------------------------------------------------------
(* The store specification: requests against a backend whose content changes *)

\* The keys the backend may hold content under.
StoredKeys == {<<"a", "/", "attributes.json">>, <<"a", "/", "x", "zarr.json">>}

AttrsFoo == [k \in {"foo"} |-> JStr("bar")]

ArrayDoc(dataType) ==
    [k \in ReservedArrayKeys \cup {"foo"} |->
        CASE k = "n5" -> JStr("4.0.0")
          [] k = "dimensions" -> JArr(<<10, 20>>)
          [] k = "blockSize" -> JArr(<<5, 10>>)
          [] k = "dataType" -> JStr(dataType)
          [] k = "compression" -> JObj("raw", <<>>)
          [] OTHER -> JStr("bar")]

NotJson == [t |-> "notjson"]

Json(d) == [t |-> "json", doc |-> d]

\* What the backend may hold under an attributes.json key, and under a
\* chunk key.
MetaContents == {NoContent, NotJson, Json(AttrsFoo), Json(ArrayDoc("float32")),
                 Json(ArrayDoc("complex128"))}

ChunkContents == {NoContent, NotJson}

ContentsFor(k) ==
    IF RSplitOnce(k).suffix = AttributesJson THEN MetaContents ELSE ChunkContents

Idle == [op |-> "idle", key |-> <<>>, calls |-> <<>>, result |-> RNone, fresh |-> FALSE]

\* A request to N5Store: `last` keeps what was asked, the calls made to the
\* wrapped store and the result (fresh: the backend has not changed since);
\* `out` keeps what convert_metadata computed.
Request(op, key, r) ==
    /\ last' = [op |-> op, key |-> key, calls |-> r.calls, result |-> r.result,
                fresh |-> TRUE]
    /\ out' = IF op \in {"get", "async_get"} THEN r.steps ELSE NoOut
    /\ UNCHANGED <<backend, buf, eshape, dec, comp, cidx>>

\* The environment writes or deletes an object of the wrapped store.
BackendPut ==
    \E k \in StoredKeys : \E c \in ContentsFor(k) :
        /\ backend' = [backend EXCEPT ![k] = c]
        /\ last' = [last EXCEPT !.fresh = FALSE]
        /\ UNCHANGED <<out, buf, eshape, dec, comp, cidx>>

Get == \E k \in Keys, io \in BOOLEAN : Request("get", k, get(backend, k, io))

SizeKey == \E k \in Keys, io \in BOOLEAN : Request("size_key", k, size_key(backend, k, io))

\* The partial reads ignore their key (and byte ranges): two keys stand for all.
PartialKeys == {<<"a">>, <<"a", "/", "zarr.json">>}

GetPartial == \E k \in PartialKeys : Request("get_partial", k, get_partial(backend, k))

GetPartialMany == \E k \in PartialKeys : Request("get_partial_many", k, get_partial_many(backend, k))

SupportsGetPartial == Request("supports_get_partial", <<>>, supports_get_partial)

AsyncGet == \E k \in Keys, io \in BOOLEAN : Request("async_get", k, async_get(backend, k, io))

AsyncSizeKey ==
    \E k \in Keys, io \in BOOLEAN : Request("async_size_key", k, async_size_key(backend, k, io))

AsyncGetPartial == \E k \in PartialKeys : Request("async_get_partial", k, async_get_partial(backend, k))

AsyncGetPartialMany ==
    \E k \in PartialKeys : Request("async_get_partial_many", k, async_get_partial_many(backend, k))

AsyncSupportsGetPartial ==
    Request("async_supports_get_partial", <<>>, async_supports_get_partial)

NoDec == [op |-> "idle"]

NoComp == [op |-> "idle"]

NoIdx == [op |-> "idle"]

Init ==
    /\ backend = [k \in StoredKeys |-> NoContent]
    /\ last = Idle
    /\ out = NoOut
    /\ buf = <<>>
    /\ eshape = <<>>
    /\ dec = NoDec
    /\ comp = NoComp
    /\ cidx = NoIdx

Next ==
    \/ BackendPut
    \/ Get
    \/ SizeKey
    \/ GetPartial
    \/ GetPartialMany
    \/ SupportsGetPartial
    \/ AsyncGet
    \/ AsyncSizeKey
    \/ AsyncGetPartial
    \/ AsyncGetPartialMany
    \/ AsyncSupportsGetPartial

Spec == Init /\ [][Next]_vars

----------------------------------------------------------------------------
(* The metadata specification: one attributes.json, drawn from the documents *)
(* below, read through N5Store as "a/zarr.json"                              *)

\* Longest `dimensions` / `blockSize` list drawn.
MaxRank == 2

MetaKey == <<"a", "/", "attributes.json">>

MetaRequestKey == <<"a", "/", "zarr.json">>

DimValues == {10, 20}

BlockValues == {0, 5, 10}

DataTypeNames ==
    {"uint8", "int8", "uint16", "int16", "uint32", "int32", "uint64", "int64",
     "float32", "float64", "complex128", "float16"}

CompressionValues == {JObj("raw", <<>>), JObj("gzip", <<>>), JObj("lz4", <<>>)}

\* Values of the wrong type for their key: a number for a string, a
\* negative number in a Vec<u64>, a string for an array, a compression of
\* an unknown type and a gzip level that is no i8.
IllTypedVersion == {JNum(4)}

IllTypedDimensions == {JArr(<<-1>>)}

IllTypedBlockSize == {JStr("5")}

IllTypedDataType == {JNum(1)}

IllTypedCompression == {JObj("zstd", <<>>), JObj("gzip", <<200>>)}

\* A key of the document: absent (<<>>) or present with one of `vals`.
Optional(vals) == {<<>>} \cup {<<v>> : v \in vals}

MkDoc(f) == [k \in {x \in DOMAIN f : f[x] # <<>>} |-> f[k][1]]

TestDocs ==
    {MkDoc(f) : f \in
        [n5 : Optional({JStr("4.0.0")} \cup IllTypedVersion),
         dimensions : Optional({JArr(q) : q \in SeqsUpTo(DimValues, MaxRank)}
                               \cup IllTypedDimensions),
         blockSize : Optional({JArr(q) : q \in SeqsUpTo(BlockValues, MaxRank)}
                              \cup IllTypedBlockSize),
         dataType : Optional({JStr(x) : x \in DataTypeNames} \cup IllTypedDataType),
         compression : Optional(CompressionValues \cup IllTypedCompression),
         foo : Optional({JStr("bar")})]}

TestBlobs == {NotJson} \cup {Json(d) : d \in TestDocs}

InitMeta ==
    /\ \E b \in TestBlobs :
          backend = [k \in StoredKeys |-> IF k = MetaKey THEN b ELSE NoContent]
    /\ last = Idle
    /\ out = NoOut
    /\ buf = <<>>
    /\ eshape = <<>>
    /\ dec = NoDec
    /\ comp = NoComp
    /\ cidx = NoIdx

MetaGet == Request("get", MetaRequestKey, get(backend, MetaRequestKey, FALSE))

MetaAsyncGet ==
    Request("async_get", MetaRequestKey, async_get(backend, MetaRequestKey, FALSE))

NextMeta == MetaGet \/ MetaAsyncGet

SpecMeta == InitMeta /\ [][NextMeta]_vars

----------------------------------------------------------------------------
(* The chunk header and the chunk body codec (chunk.rs, codec.rs) *)
(* A u16 is an integer; a u32 is kept as its two 16-bit halves <<hi, lo>>   *)
(* and a u64 as its four 16-bit quarters, most significant first.           *)

\* u16::from_be_bytes(bytes[offset..offset + 2]).
U16FromBe(bytes, offset) == bytes[offset + 1] * 256 + bytes[offset + 2]

\* u32::from_be_bytes(bytes[offset..offset + 4]).
U32FromBe(bytes, offset) ==
    <<bytes[offset + 1] * 256 + bytes[offset + 2],
      bytes[offset + 3] * 256 + bytes[offset + 4]>>

Panic == [t |-> "panic"]

HeaderOk(mode, shape) == [t |-> "ok", header |-> [mode |-> mode, shape |-> shape]]

HeaderErr(msg) == [t |-> "err", msg |-> msg]

ModeDefault == [kind |-> "Default", num_el |-> <<0, 0>>]

ModeVarLen(num_el) == [kind |-> "VarLen", num_el |-> num_el]

ModeObject == [kind |-> "Object", num_el |-> <<0, 0>>]

\* N5ChunkHeader::from_bytes.  bytes[a..b] panics when b exceeds the length
\* of the slice; the try_into() that follows never fails.
from_bytes(bytes) ==
    IF Len(bytes) < 2 THEN Panic
    ELSE IF Len(bytes) < 4 THEN Panic
    ELSE LET mode_num == U16FromBe(bytes, 0)
             ndim == U16FromBe(bytes, 2)
             offset == 4 + 4 * ndim
             shape == [i \in 1..ndim |-> U32FromBe(bytes, 4 + 4 * (i - 1))]
         IN  IF Len(bytes) < offset THEN Panic
             ELSE IF mode_num = 0 THEN HeaderOk(ModeDefault, shape)
             ELSE IF mode_num = 1
                 THEN IF Len(bytes) < offset + 4 THEN Panic
                      ELSE HeaderOk(ModeVarLen(U32FromBe(bytes, offset)), shape)
             ELSE IF mode_num = 2 THEN HeaderOk(ModeObject, shape)
             ELSE HeaderErr("invalid N5 chunk mode")

\* N5ChunkHeader::data_offset without the element count of a VarLen header.
data_offset_fixed(header) == 2 + 2 + Len(header.shape) * 4

\* N5ChunkHeader::data_offset.
data_offset(header) ==
    2 + 2 + Len(header.shape) * 4 + (IF header.mode.kind = "VarLen" THEN 4 ELSE 0)

\* `n.get() as u32` of a NonZeroU64: the low 32 bits.
AsU32(n) == <<n[3], n[4]>>

DecodeErr(msg) == [t |-> "err", msg |-> msg]

\* The payload handed to the codec chain (bytes codec, then the compressor).
ChainDecode(payload) == [t |-> "ok", payload |-> payload]

\* N5Codec::decode with the shape compared before the mode.
decode_shape_first(bytes, shape) ==
    LET h == from_bytes(bytes)
    IN  IF h.t = "panic" THEN Panic
        ELSE IF h.t = "err" THEN DecodeErr("N5 chunk header could not be parsed")
        ELSE LET shape_u32 == Reverse([i \in 1..Len(shape) |-> AsU32(shape[i])])
             IN  IF h.header.shape # shape_u32
                 THEN DecodeErr("N5 chunk header has unexpected shape")
                 ELSE IF h.header.mode.kind # "Default"
                 THEN DecodeErr("unsupported N5 chunk mode")
                 ELSE ChainDecode(SubSeq(bytes, data_offset(h.header) + 1, Len(bytes)))

\* N5Codec::decode.
decode(bytes, shape) ==
    LET h == from_bytes(bytes)
    IN  IF h.t = "panic" THEN Panic
        ELSE IF h.t = "err" THEN DecodeErr("N5 chunk header could not be parsed")
        ELSE IF h.header.mode.kind # "Default"
        THEN DecodeErr("unsupported N5 chunk mode")
        ELSE LET shape_u32 == Reverse([i \in 1..Len(shape) |-> AsU32(shape[i])])
             IN  IF h.header.shape # shape_u32
                 THEN DecodeErr("N5 chunk header has unexpected shape")
                 ELSE IF data_offset(h.header) > Len(bytes) THEN Panic
                 ELSE ChainDecode(SubSeq(bytes, data_offset(h.header) + 1, Len(bytes)))

----------------------------------------------------------------------------
(* The chunk specification: a chunk blob and an expected shape, drawn from  *)
(* the sets below, handed to from_bytes and to decode                       *)

\* Largest dimension count written in the header's ndim field.
MaxNdim == 2

\* Most 32-bit words following the mode and ndim fields.
MaxWords == 3

\* Longest expected shape.
MaxShapeRank == 2

\* The two bytes of the mode field: 0, 1, 2, 3 and 256.
ModeFields == {<<0, 0>>, <<0, 1>>, <<0, 2>>, <<0, 3>>, <<1, 0>>}

NdimFields == {<<0, n>> : n \in 0..MaxNdim}

\* Big-endian words: 1, 2 and 65537.
WordValues == {<<0, 0, 0, 1>>, <<0, 0, 0, 2>>, <<0, 1, 0, 1>>}

RECURSIVE Flatten(_)
Flatten(ws) == IF ws = <<>> THEN <<>> ELSE Head(ws) \o Flatten(Tail(ws))

FullBuffers ==
    {m \o n \o Flatten(ws) : m \in ModeFields, n \in NdimFields,
                             ws \in SeqsUpTo(WordValues, MaxWords)}

\* Every blob above and every truncation of it.
Buffers == UNION {{SubSeq(b, 1, n) : n \in 0..Len(b)} : b \in FullBuffers}

\* NonZeroU64 sizes: 1, 2 and 2^32 + 1.
ShapeValues == {<<0, 0, 0, 1>>, <<0, 0, 0, 2>>, <<0, 1, 0, 1>>}

Shapes == SeqsUpTo(ShapeValues, MaxShapeRank)

InitChunk ==
    /\ buf \in Buffers
    /\ eshape \in Shapes
    /\ dec = NoDec
    /\ backend = [k \in StoredKeys |-> NoContent]
    /\ last = Idle
    /\ out = NoOut
    /\ comp = NoComp
    /\ cidx = NoIdx

FromBytes ==
    /\ dec' = [op |-> "from_bytes", header |-> from_bytes(buf), result |-> [t |-> "none"]]
    /\ UNCHANGED <<backend, last, out, buf, eshape, comp, cidx>>

Decode ==
    /\ dec' = [op |-> "decode", header |-> from_bytes(buf), result |-> decode(buf, eshape)]
    /\ UNCHANGED <<backend, last, out, buf, eshape, comp, cidx>>

NextChunk == FromBytes \/ Decode

SpecChunk == InitChunk /\ [][NextChunk]_vars

----------------------------------------------------------------------------
(* The codec specification: one JSON compression object, drawn from the     *)
(* sets below, parsed and handed to the compression selectors, to           *)
(* N5Codec::new, to N5Codec::create and to the array translation            *)

CompressionObject(type, field, n) ==
    [k \in {"type", field} |-> IF k = "type" THEN JStr(type) ELSE JNum(n)]

\* Every u8 block size and every i8 level, the numbers next to those ranges,
\* some u64 levels and u32 presets, each scheme without its parameter, a
\* scheme the enum does not have, and an object without "type".
CompressionObjects ==
    {[k \in {"type"} |-> JStr(t)] : t \in {"raw", "bzip2", "gzip", "lz4", "xz", "zstd"}}
    \cup {CompressionObject("bzip2", "block_size", n) : n \in -1..256}
    \cup {CompressionObject("gzip", "level", n) : n \in -129..128}
    \cup {CompressionObject("lz4", "level", n) : n \in {-1, 0, 1, 65536}}
    \cup {CompressionObject("xz", "preset", n) : n \in {-1, 0, 6, 9}}
    \cup {[k \in {"level"} |-> JNum(5)]}

\* The array document the compression is translated in.
ArrayWith(compression) ==
    [kind |-> "array", n5_version |-> <<>>, dimensions |-> <<10, 20>>,
     block_size |-> <<5, 10>>, data_type |-> "uint8", compression |-> compression,
     attributes |-> <<>>]

CodecMetadata(config) == [name |-> "zarrs.n5", configuration |-> config]

InitCodec ==
    /\ comp \in {[op |-> "idle", json |-> o] : o \in CompressionObjects}
    /\ cidx = NoIdx
    /\ backend = [k \in StoredKeys |-> NoContent]
    /\ last = Idle
    /\ out = NoOut
    /\ buf = <<>>
    /\ eshape = <<>>
    /\ dec = NoDec

CodecStep(r) ==
    /\ comp' = r
    /\ UNCHANGED <<backend, last, out, buf, eshape, dec, cidx>>

\* serde deserializes the object as an N5Compression.
Deserialize ==
    CodecStep([op |-> "deserialize", json |-> comp.json,
               parsed |-> DeserializeCompression(comp.json)])

\* Both compression selectors on the parsed N5Compression.
SelectTransform ==
    LET c == DeserializeCompression(comp.json)
    IN  /\ c.ok
        /\ CodecStep([op |-> "select", json |-> comp.json, compression |-> c.v,
                      method |-> to_bytes_to_bytes_codec(c.v),
                      b2b |-> n5compression_to_b2b(c.v)])

\* N5Codec::new on the parsed N5Compression; a codec that was built emits
\* its configuration, and N5Codec::create is handed the codec metadata
\* holding it.
NewCodec ==
    LET c == DeserializeCompression(comp.json)
        codec == N5Codec_new(c.v)
    IN  /\ c.ok
        /\ CodecStep([op |-> "new", json |-> comp.json, compression |-> c.v,
                      codec |-> codec,
                      recreated |-> IF codec.ok
                                    THEN create(CodecMetadata(configuration(codec.v)))
                                    ELSE Err("no codec")])

\* N5Codec::create on codec metadata whose configuration holds the object
\* under "compression", or holds nothing.
Create ==
    \E config \in {[k \in {"compression"} |-> comp.json], <<>>} :
        CodecStep([op |-> "create", json |-> comp.json, config |-> config,
                   codec |-> create(CodecMetadata(config))])

\* The translation of an array document with the parsed N5Compression, and
\* N5Codec::create on the codec entry of the translated document.
Translate ==
    LET c == DeserializeCompression(comp.json)
        zarr == ArrayMetadataV3(ArrayWith(c.v))
    IN  /\ c.ok
        /\ CodecStep([op |-> "translate", json |-> comp.json, compression |-> c.v,
                      codec |-> N5Codec_new(c.v),
                      zarr |-> zarr,
                      recreated |-> IF zarr.ok THEN create(zarr.v.codecs[1])
                                    ELSE Err("no document")])

NextCodec == Deserialize \/ SelectTransform \/ NewCodec \/ Create \/ Translate

SpecCodec == InitCodec /\ [][NextCodec]_vars

----------------------------------------------------------------------------
(* The chunk key encoding (chunk_key_encoding.rs).  A key is the sequence   *)
(* of its characters: decimal digits and the separator.                     *)

Digits == <<"0", "1", "2", "3", "4", "5", "6", "7", "8", "9">>

\* format_args!("{idx}") of a u64: its decimal digits, most significant
\* first, without leading zeros.
RECURSIVE Decimal(_)
Decimal(n) ==
    IF n < 10 THEN <<Digits[n + 1]>>
    ELSE Decimal(n \div 10) \o <<Digits[(n % 10) + 1]>>

\* StoreKey::new: a key may not start or end with the separator.
StoreKeyValid(s) == s = <<>> \/ (s[1] # Slash /\ s[Len(s)] # Slash)

\* The loop of encode over the indices still to be written.
RECURSIVE EncodeLoop(_, _, _)
EncodeLoop(rest, s, is_first) ==
    IF rest = <<>> THEN s
    ELSE EncodeLoop(Tail(rest),
                    (IF is_first THEN s ELSE s \o <<Slash>>) \o Decimal(Head(rest)),
                    FALSE)

\* N5ChunkKeyEncoding::encode with the indices taken in the order given.
encode_forward(chunk_grid_indices) ==
    LET s == EncodeLoop(chunk_grid_indices, <<>>, TRUE)
    IN  IF StoreKeyValid(s) THEN [t |-> "key", key |-> s] ELSE [t |-> "panic", key |-> <<>>]

\* N5ChunkKeyEncoding::encode.
encode(chunk_grid_indices) ==
    LET s == EncodeLoop(Reverse(chunk_grid_indices), <<>>, TRUE)
    IN  IF StoreKeyValid(s) THEN [t |-> "key", key |-> s] ELSE [t |-> "panic", key |-> <<>>]

----------------------------------------------------------------------------
(* The chunk key specification: chunk grid indices, drawn from the sets     *)
(* below, handed to encode                                                  *)

\* Most chunk grid indices (dimensions) of a chunk.
MaxIndices == 3

\* Indices of one, two and three decimal digits.
IndexValues == {0, 1, 2, 5, 10, 205}

InitKey ==
    /\ cidx \in {[op |-> "idle", indices |-> i] : i \in SeqsUpTo(IndexValues, MaxIndices)}
    /\ comp = NoComp
    /\ backend = [k \in StoredKeys |-> NoContent]
    /\ last = Idle
    /\ out = NoOut
    /\ buf = <<>>
    /\ eshape = <<>>
    /\ dec = NoDec

Encode ==
    /\ cidx' = [op |-> "encode", indices |-> cidx.indices, result |-> encode(cidx.indices)]
    /\ UNCHANGED <<backend, last, out, buf, eshape, dec, comp>>

NextKey == Encode

SpecKey == InitKey /\ [][NextKey]_vars

----------------------------------------------------------------------------
(* Claims about N5Store, checked under Spec *)

\* The key the wrapped store is to be asked for: the requested key with a
\* final segment "zarr.json" replaced by "attributes.json", else the
\* requested key itself.
ExpectedBackendKey(k) ==
    IF /\ Len(k) >= 1
       /\ k[Len(k)] = "zarr.json"
       /\ (Len(k) = 1 \/ k[Len(k) - 1] = Slash)
    THEN [i \in 1..Len(k) |-> IF i = Len(k) THEN "attributes.json" ELSE k[i]]
    ELSE k

IsMetadataKey(k) == ExpectedBackendKey(k) # k

\* C1: get and size_key issue exactly one call to the wrapped store, of the
\* same operation, with the key whose final segment "zarr.json" is replaced
\* by "attributes.json" (prefix unchanged) and with every other key
\* unmodified.
C1_OneBackendCall ==
    last.op \in {"get", "size_key"} =>
        /\ Len(last.calls) = 1
        /\ last.calls[1].op = last.op
        /\ last.calls[1].key = ExpectedBackendKey(last.key)

\* A get of "a/a/zarr.json" asked the wrapped store for "a/a/attributes.json".
C1_Witness ==
    /\ last.op = "get"
    /\ last.key = <<"a", "/", "a", "/", "zarr.json">>
    /\ last.calls = <<Call("get", <<"a", "/", "a", "/", "attributes.json">>)>>

\* C2: an InvalidMetadata error of a get carries the key that was requested.
C2_ErrorCarriesRequestedKey ==
    (/\ last.op = "get"
     /\ last.result.t = "err"
     /\ last.result.kind = "InvalidMetadata")
        => last.result.key = last.key

\* The content the wrapped store holds now under key k.
Current(k) == IF k \in DOMAIN backend THEN backend[k] ELSE NoContent

\* C3: a get of a metadata key answers from what the wrapped store holds
\* under the rewritten key at the time of the call: not found exactly when
\* the store holds nothing there, else the translation of the bytes held now.
C3_NoCache ==
    (/\ last.op \in {"get", "async_get"}
     /\ last.fresh
     /\ IsMetadataKey(last.key)
     /\ ~(last.result.t = "err" /\ last.result.kind = "IOError"))
        => LET cur == Current(ExpectedBackendKey(last.key))
           IN  /\ last.result.t = "none" <=> cur.t = "none"
               /\ cur.t # "none" => last.result = convert_metadata(RBytes(cur)).result

\* A get of "a/zarr.json" returned the translated array document that the
\* store holds under "a/attributes.json" now (it held nothing at first).
C3_Witness ==
    /\ last.op = "get"
    /\ last.fresh
    /\ last.key = <<"a", "/", "zarr.json">>
    /\ last.result.t = "bytes"
    /\ last.result.bytes.doc.node_type = "array"
    /\ backend[<<"a", "/", "attributes.json">>] = Json(ArrayDoc("float32"))

SameAsLast(r) == r.calls = last.calls /\ r.result = last.result

\* C4: the blocking and the async implementation agree: on the same key,
\* backend content and backend outcome, get, size_key, get_partial,
\* get_partial_many and supports_get_partial make the same backend call and
\* return the same result or error.
C4_SyncAsyncAgree ==
    last.fresh =>
        LET io == last.result.t = "err" /\ last.result.kind = "IOError"
        IN  /\ last.op = "get" => SameAsLast(async_get(backend, last.key, io))
            /\ last.op = "async_get" => SameAsLast(get(backend, last.key, io))
            /\ last.op = "size_key" => SameAsLast(async_size_key(backend, last.key, io))
            /\ last.op = "async_size_key" => SameAsLast(size_key(backend, last.key, io))
            /\ last.op = "get_partial" => SameAsLast(async_get_partial(backend, last.key))
            /\ last.op = "async_get_partial" => SameAsLast(get_partial(backend, last.key))
            /\ last.op = "get_partial_many"
                    => SameAsLast(async_get_partial_many(backend, last.key))
            /\ last.op = "async_get_partial_many"
                    => SameAsLast(get_partial_many(backend, last.key))
            /\ last.op = "supports_get_partial" => SameAsLast(async_supports_get_partial)
            /\ last.op = "async_supports_get_partial" => SameAsLast(supports_get_partial)

\* An async size_key of "a/zarr.json" returned the size of the attributes
\* blob, as the blocking size_key does.
C4_Witness ==
    /\ last.op = "async_size_key"
    /\ last.fresh
    /\ last.key = <<"a", "/", "zarr.json">>
    /\ last.result.t = "size"
    /\ SameAsLast(size_key(backend, last.key, FALSE))

----------------------------------------------------------------------------
(* Claims about the metadata translation, checked under SpecMeta *)

\* The attributes.json document translated last was parsed as an array.
ArrayConverted == out.op = "convert" /\ out.n5.ok /\ out.n5.v.kind = "array"

IsReverseOf(a, b) == Len(a) = Len(b) /\ \A i \in 1..Len(a) : a[i] = b[Len(b) + 1 - i]

\* C8: for every array document that translates, the shape is `dimensions`
\* reversed and the regular bounded chunk grid's chunk shape is `blockSize`
\* reversed, element for element; the attribute map is carried over
\* unchanged and the "n5" version string appears nowhere in the result.
C8_ReversedShapes ==
    (ArrayConverted /\ out.zarr.ok) =>
        LET d == out.bytes.doc
            z == out.zarr.v
        IN  /\ IsReverseOf(z.shape, d["dimensions"].q)
            /\ z.chunk_grid.name = "regular_bounded"
            /\ IsReverseOf(z.chunk_grid.chunk_shape, d["blockSize"].q)
            /\ DOMAIN z.attributes = DOMAIN d \ ReservedArrayKeys
            /\ \A k \in DOMAIN z.attributes : z.attributes[k] = d[k]
            /\ DOMAIN z = {"node_type", "shape", "chunk_grid", "data_type", "fill_value",
                           "codecs", "chunk_key_encoding", "attributes"}
            /\ last.result = RBytes(Json(z))

\* dimensions [10,20] with blockSize [5,10], an "n5" version and an attribute
\* "foo" were translated to shape [20,10] with chunk shape [10,5].
C8_Witness ==
    /\ ArrayConverted
    /\ out.zarr.ok
    /\ "n5" \in DOMAIN out.bytes.doc
    /\ out.bytes.doc["dimensions"].q = <<10, 20>>
    /\ out.bytes.doc["blockSize"].q = <<5, 10>>
    /\ out.zarr.v.shape = <<20, 10>>
    /\ out.zarr.v.chunk_grid.chunk_shape = <<10, 5>>
    /\ "foo" \in DOMAIN out.zarr.v.attributes
    /\ last.result.t = "bytes"

\* C9: every array document the translation accepts has `dimensions` and
\* `blockSize` of the same length and every block size strictly positive.
C9_AcceptedHasEqualRank ==
    (ArrayConverted /\ out.zarr.ok) =>
        LET d == out.bytes.doc
        IN  /\ Len(d["dimensions"].q) = Len(d["blockSize"].q)
            /\ \A i \in 1..Len(d["blockSize"].q) : d["blockSize"].q[i] > 0

TenDataTypes ==
    {"uint8", "int8", "uint16", "int16", "uint32", "int32", "uint64", "int64",
     "float32", "float64"}

IsInvalidMetadata(r) == r.t = "err" /\ r.kind = "InvalidMetadata"

\* C10: the data-type step succeeds exactly for the ten data type names:
\* with one of them the translation does not fail on the data type (and
\* yields that type when it succeeds); with any other string the translation
\* fails as a whole, with "unsupported data type" once the chunk grid was
\* built, and the get of the zarr.json key fails with InvalidMetadata, as it
\* does when the bytes are not parseable N5 metadata.
C10_DataTypeStep ==
    /\ (out.op = "convert" /\ ~out.n5.ok) => IsInvalidMetadata(last.result)
    /\ ArrayConverted =>
        LET d == out.bytes.doc
            dt == d["dataType"].s
            zeroBlock == \E i \in 1..Len(d["blockSize"].q) : d["blockSize"].q[i] = 0
        IN  /\ dt \in TenDataTypes =>
                /\ ~out.zarr.ok => out.zarr.err # "unsupported data type"
                /\ out.zarr.ok => out.zarr.v.data_type = dt
            /\ dt \notin TenDataTypes =>
                /\ ~out.zarr.ok
                /\ ~zeroBlock => out.zarr.err = "unsupported data type"
                /\ IsInvalidMetadata(last.result)

\* A get of "a/zarr.json" over an array document whose only fault is the
\* dataType "complex128" failed with InvalidMetadata.
C10_Witness ==
    /\ ArrayConverted
    /\ last.op = "get"
    /\ out.bytes.doc["dataType"].s = "complex128"
    /\ out.bytes.doc["blockSize"].q = <<5, 10>>
    /\ out.bytes.doc["compression"].s = "raw"
    /\ out.zarr = Err("unsupported data type")
    /\ IsInvalidMetadata(last.result)

----------------------------------------------------------------------------
(* Claims about the chunk codec, checked under SpecChunk *)

\* The fields of the blob as the format lays them out.
ModeOf(b) == b[1] * 256 + b[2]

NdimOf(b) == b[3] * 256 + b[4]

\* The blob ends before the fields its header declares.
TooShort(b) ==
    \/ Len(b) < 4
    \/ Len(b) < 4 + 4 * NdimOf(b)
    \/ ModeOf(b) = 1 /\ Len(b) < 8 + 4 * NdimOf(b)

BadMode(b) == Len(b) >= 2 /\ ModeOf(b) \notin {0, 1, 2}

\* C5: from_bytes returns an error value, not a crash, whenever the buffer
\* is shorter than the fields read or the mode is not 0, 1 or 2, and decode
\* surfaces it as a codec error.
C5_ShortOrBadModeIsError ==
    (dec.op \in {"from_bytes", "decode"} /\ (TooShort(buf) \/ BadMode(buf))) =>
        /\ dec.header.t = "err"
        /\ dec.op = "decode" =>
              dec.result = DecodeErr("N5 chunk header could not be parsed")

\* C6 as claimed: decode of any blob whose mode discriminator is 1 or 2 fails
\* with the unsupported-mode error, whatever bytes follow the dimension
\* sizes.
C6_AnyModeOneOrTwoBlob ==
    (/\ dec.op = "decode"
     /\ Len(buf) >= 4
     /\ Len(buf) >= 4 + 4 * NdimOf(buf)
     /\ ModeOf(buf) \in {1, 2})
        => dec.result = DecodeErr("unsupported N5 chunk mode")

\* C6 (amended): decode of a blob whose mode discriminator is 1 or 2 and
\* whose header is complete (4 + 4*ndim bytes, and 4 more for mode 1) fails
\* with the unsupported-mode error, whatever bytes follow and whether or not
\* the header's shape matches the expected shape.
C6_CompleteHeaderUnsupportedMode ==
    (dec.op = "decode" /\ Len(buf) >= 2 /\ ModeOf(buf) \in {1, 2} /\ ~TooShort(buf)) =>
        dec.result = DecodeErr("unsupported N5 chunk mode")

\* The header's shape, reversed, is the expected shape, as integers.
ShapesEqual(hshape, shape) ==
    /\ Len(hshape) = Len(shape)
    /\ \A i \in 1..Len(shape) :
          shape[i] = <<0, 0>> \o hshape[Len(shape) + 1 - i]

\* A 16-byte mode 1 blob (one dimension, element count, four payload bytes)
\* whose shape is the expected one was refused as unsupported mode.
C6_Witness ==
    /\ dec.op = "decode"
    /\ Len(buf) = 16
    /\ ModeOf(buf) = 1
    /\ dec.header.t = "ok"
    /\ ShapesEqual(dec.header.header.shape, eshape)
    /\ Len(eshape) = 1
    /\ dec.result = DecodeErr("unsupported N5 chunk mode")

\* C7: a Default-mode chunk passes the shape check only if the header's
\* shape, reversed, equals the expected shape exactly, as integers and for
\* every u64 size; any other combination is a shape-mismatch error.
C7_ShapeCheckExact ==
    (dec.op = "decode" /\ dec.header.t = "ok" /\ dec.header.header.mode.kind = "Default") =>
        IF ShapesEqual(dec.header.header.shape, eshape)
        THEN dec.result.t = "ok"
        ELSE dec.result = DecodeErr("N5 chunk header has unexpected shape")

----------------------------------------------------------------------------
(* Claims about the compression schemes and the codec, checked under SpecCodec *)

IsTransform(r, codec, level) == r.ok /\ r.v = [codec |-> codec, level |-> level]

\* The result r of a compression selector on the compression c resolves as
\* stated, the gzip levels 0..maxGzip being those that give a transform.
Resolves(r, c, maxGzip) ==
    /\ c.scheme = "raw" => IsTransform(r, "none", 0)
    /\ (c.scheme = "gzip" /\ c.param = -1) => IsTransform(r, "gzip", 6)
    /\ (c.scheme = "gzip" /\ c.param >= 0 /\ c.param <= maxGzip) =>
            IsTransform(r, "gzip", c.param)
    /\ (c.scheme = "gzip" /\ (c.param < -1 \/ c.param > maxGzip)) => ~r.ok
    /\ (c.scheme = "bzip2" /\ c.param \in 1..9) => IsTransform(r, "bz2", c.param)
    /\ (c.scheme = "bzip2" /\ c.param \notin 1..9) => ~r.ok

\* C11 as stated: the selector resolves Raw to no transform, Gzip level -1
\* to a gzip transform of level 6, every non-negative Gzip level (up to the
\* largest i8, 127) to a transform of that level, every other negative
\* Gzip level to a construction error, Bzip2 block sizes 1..=9 to a
\* transform and every other block size to a construction error.
C11_EveryNonNegativeGzipLevel ==
    comp.op = "select" =>
        /\ Resolves(comp.method, comp.compression, 127)
        /\ Resolves(comp.b2b, comp.compression, 127)

\* C11 amended: as above, but the Gzip levels that resolve to a transform of
\* the same level are 0..=9, and every Gzip level above 9 is a construction
\* error like the negative levels other than -1.
C11_SelectorResolves ==
    comp.op = "select" =>
        /\ Resolves(comp.method, comp.compression, 9)
        /\ Resolves(comp.b2b, comp.compression, 9)

\* Both selectors were asked for Gzip level -1 and gave a gzip transform of
\* level 6.
C11_Witness ==
    /\ comp.op = "select"
    /\ comp.compression = [scheme |-> "gzip", param |-> -1]
    /\ IsTransform(comp.method, "gzip", 6)
    /\ IsTransform(comp.b2b, "gzip", 6)

\* The error of the selectors' last arm: "unsupported N5 compression: {c:?}",
\* the Debug text of c naming its variant.
IsUnsupported(r, c) ==
    /\ ~r.ok
    /\ r.err = "unsupported N5 compression"
    /\ r.arg.scheme = c.scheme

\* C12: an Lz4 or Xz object deserializes (to level 65536 / preset 6 when the
\* parameter is omitted, else to the parameter given), and for every Lz4 or
\* Xz value both selectors and N5Codec::new return the unsupported
\* compression error naming the scheme, never a transform or a codec.
C12_Lz4XzParseThenUnsupported ==
    /\ (/\ comp.op = "deserialize"
        /\ "type" \in DOMAIN comp.json
        /\ comp.json["type"].s \in {"lz4", "xz"}) =>
            LET scheme == comp.json["type"].s
                name == IF scheme = "lz4" THEN "level" ELSE "preset"
                default == IF scheme = "lz4" THEN 65536 ELSE 6
            IN  /\ name \notin DOMAIN comp.json =>
                        /\ comp.parsed.ok
                        /\ comp.parsed.v = [scheme |-> scheme, param |-> default]
                /\ (name \in DOMAIN comp.json /\ comp.json[name].q[1] >= 0) =>
                        /\ comp.parsed.ok
                        /\ comp.parsed.v = [scheme |-> scheme,
                                            param |-> comp.json[name].q[1]]
    /\ (comp.op = "select" /\ comp.compression.scheme \in {"lz4", "xz"}) =>
            /\ IsUnsupported(comp.method, comp.compression)
            /\ IsUnsupported(comp.b2b, comp.compression)
    /\ (comp.op = "new" /\ comp.compression.scheme \in {"lz4", "xz"}) =>
            IsUnsupported(comp.codec, comp.compression)

\* N5Codec::new was refused for the Lz4 value parsed, with the default level
\* 65536, from an object that holds no level.
C12_Witness ==
    /\ comp.op = "new"
    /\ comp.json = [k \in {"type"} |-> JStr("lz4")]
    /\ comp.compression = [scheme |-> "lz4", param |-> 65536]
    /\ IsUnsupported(comp.codec, comp.compression)

----------------------------------------------------------------------------
(* Claims about the chunk key encoding, checked under SpecKey *)

\* The segments of a key: the text between its separators.
RECURSIVE Segments(_)
Segments(s) ==
    LET at == {i \in 1..Len(s) : s[i] = Slash}
    IN  IF at = {} THEN <<s>>
        ELSE LET i == CHOOSE j \in at : \A k \in at : j <= k
             IN  <<SubSeq(s, 1, i - 1)>> \o Segments(SubSeq(s, i + 1, Len(s)))

DigitValue(c) == CHOOSE d \in 0..9 : Digits[d + 1] = c

\* A segment is the decimal numeral of n: digits only, no leading zero, and
\* of value n.
RECURSIVE NumeralValue(_)
NumeralValue(seg) ==
    IF Len(seg) = 1 THEN DigitValue(seg[1])
    ELSE 10 * NumeralValue(SubSeq(seg, 1, Len(seg) - 1)) + DigitValue(seg[Len(seg)])

IsNumeralOf(seg, n) ==
    /\ Len(seg) >= 1
    /\ \A i \in 1..Len(seg) : \E d \in 0..9 : Digits[d + 1] = seg[i]
    /\ (Len(seg) > 1 => seg[1] # "0")
    /\ NumeralValue(seg) = n

\* C13: for every non-empty sequence of indices, encode returns a key with
\* no leading or trailing separator whose segments are, one for each index,
\* the decimal numerals of the indices in reverse order; and the key of the
\* reversed index sequence has the same segments in reverse order.
C13_ReversedDecimalSegments ==
    (cidx.op = "encode" /\ cidx.indices # <<>>) =>
        /\ cidx.result.t = "key"
        /\ LET key == cidx.result.key
               n == Len(cidx.indices)
               segs == Segments(key)
           IN  /\ key[1] # Slash
               /\ key[Len(key)] # Slash
               /\ Len(segs) = n
               /\ \A i \in 1..n : IsNumeralOf(segs[i], cidx.indices[n + 1 - i])
               /\ encode(Reverse(cidx.indices)).t = "key"
               /\ Segments(encode(Reverse(cidx.indices)).key) = Reverse(segs)

\* The indices [2, 0, 1] were encoded to "1/0/2".
C13_Witness ==
    /\ cidx.op = "encode"
    /\ cidx.indices = <<2, 0, 1>>
    /\ cidx.result = [t |-> "key", key |-> <<"1", "/", "0", "/", "2">>]

----------------------------------------------------------------------------
(* A further claim about the chunk header, checked under SpecChunk *)

\* The bytes from_bytes read from the blob: mode, ndim, the dimension sizes
\* and, in mode 1, the element count.
Consumed(b) == 4 + 4 * NdimOf(b) + (IF ModeOf(b) = 1 THEN 4 ELSE 0)

\* C15: whenever from_bytes succeeds, data_offset is the number of header
\* bytes it read (4+4n for a Default or Object header of n dimensions, 8+4n
\* for a VarLen one) and at most the length of the blob, so decode's payload
\* slice is in bounds and is exactly the bytes after the header.
C15_DataOffsetIsHeaderLength ==
    (dec.op \in {"from_bytes", "decode"} /\ dec.header.t = "ok") =>
        LET h == dec.header.header
            n == Len(h.shape)
        IN  /\ data_offset(h) = Consumed(buf)
            /\ h.mode.kind \in {"Default", "Object"} => data_offset(h) = 4 + 4 * n
            /\ h.mode.kind = "VarLen" => data_offset(h) = 8 + 4 * n
            /\ data_offset(h) <= Len(buf)
            /\ dec.op = "decode" =>
                    /\ dec.result.t # "panic"
                    /\ dec.result.t = "ok" =>
                            /\ Len(dec.result.payload) = Len(buf) - Consumed(buf)
                            /\ \A i \in 1..Len(dec.result.payload) :
                                    dec.result.payload[i] = buf[Consumed(buf) + i]

\* from_bytes parsed a VarLen header of one dimension from a blob of exactly
\* its 12 header bytes: the payload is empty.
C15_Witness ==
    /\ dec.op = "from_bytes"
    /\ Len(buf) = 12
    /\ dec.header.t = "ok"
    /\ dec.header.header.mode.kind = "VarLen"
    /\ Len(dec.header.header.shape) = 1
    /\ data_offset(dec.header.header) = Len(buf)

----------------------------------------------------------------------------
(* A further claim about the metadata documents, checked under SpecMeta *)

ArrayKeys == {"dimensions", "blockSize", "dataType", "compression"}

\* The value v is of the type the array key takes.
WellTyped(key, v) ==
    IF key \in {"dimensions", "blockSize"}
    THEN v.t = "arr" /\ \A i \in 1..Len(v.q) : v.q[i] >= 0
    ELSE IF key = "dataType" THEN v.t = "str"
    ELSE /\ v.t = "obj"
         /\ \/ v.s = "raw"
            \/ v.s = "bzip2" /\ (v.q = <<>> \/ v.q[1] \in 0..255)
            \/ v.s = "gzip" /\ (v.q = <<>> \/ v.q[1] \in -128..127)
            \/ v.s \in {"lz4", "xz"} /\ (v.q = <<>> \/ v.q[1] >= 0)

HasArrayKeys(d) ==
    /\ ArrayKeys \subseteq DOMAIN d
    /\ \A k \in ArrayKeys : WellTyped(k, d[k])

\* What C16 states of the parsed document and of its translation.
Disambiguated(d) ==
    /\ out.n5.ok
    /\ out.n5.v.kind = "array" <=> HasArrayKeys(d)
    /\ HasArrayKeys(d) =>
            /\ DOMAIN out.n5.v.attributes \cap ReservedArrayKeys = {}
            /\ out.n5.v.attributes = [k \in DOMAIN d \ ReservedArrayKeys |-> d[k]]
    /\ ~HasArrayKeys(d) =>
            /\ out.n5.v.kind = "group"
            /\ out.n5.v.attributes = [k \in DOMAIN d \ {"n5"} |-> d[k]]
            /\ out.zarr.ok
            /\ out.zarr.v.node_type = "group"
            /\ out.zarr.v.attributes = [k \in DOMAIN d \ {"n5"} |-> d[k]]
            /\ last.result.t = "bytes"

====
